---------------------------- MODULE Spec2Model ----------------------------
(***************************************************************************)
(* A model of package language (language tags, the registry of languages   *)
(* and their CLDR plural rules) and of package i18n (the table of          *)
(* translated messages).                                                   *)
(*                                                                         *)
(* Strings are sequences of one-character strings, so that slicing,        *)
(* trimming and replacing act on characters as the Go code does.  Indices  *)
(* named start and end are Go's 0-based byte offsets.                      *)
(***************************************************************************)
EXTENDS Integers, Sequences, FiniteSets, TLC

VARIABLES
    languages,      \* language.languages: the registry, a map ID -> *Language
    lastReg,        \* history: ID -> the argument of the latest Register(l) with l.ID = ID
    last,           \* the latest call of the sequential specifications and what it returned
    currentLocale,  \* i18n.currentLocale
    translations,   \* i18n.translations: locale -> (id -> translation)
    messages,       \* history: the Messages NewMessage returned, with their content
    pc,             \* per goroutine: where it is in Register or lookup
    arg,            \* per goroutine: the *Language or the languageID it works on
    ret,            \* per goroutine: what its latest lookup returned
    dirty,          \* per goroutine: a map write overlapped its map read in progress
    crashed         \* the Go runtime detected a concurrent map access and aborted

vars == <<languages, lastReg, last, currentLocale, translations, messages,
          pc, arg, ret, dirty, crashed>>

-----------------------------------------------------------------------------
(* Strings *)

\* The nil *Language.
Nil == [nil |-> TRUE]

\* All sequences over S of length at most n.
SeqsUpTo(S, n) == UNION {[1..k -> S] : k \in 0..n}

RECURSIVE Flatten(_)
\* The concatenation of a sequence of strings.
Flatten(ss) == IF ss = <<>> THEN <<>> ELSE Head(ss) \o Flatten(Tail(ss))

\* s[a:b] of Go.
Slice(s, a, b) == SubSeq(s, a + 1, b)

\* The characters unicode.IsSpace accepts among those the model writes.
WhiteSpace == {" ", "\t", "\n", "\r"}

\* strings.TrimSpace: the longest slice that neither starts nor ends with white space.
TrimSpace(s) ==
    LET inner == {i \in 1..Len(s) : s[i] \notin WhiteSpace}
    IN  IF inner = {} THEN <<>>
        ELSE LET lo == CHOOSE i \in inner : \A j \in inner : i <= j
                 hi == CHOOSE i \in inner : \A j \in inner : i >= j
             IN  SubSeq(s, lo, hi)

\* strings.Replace(s, old, new, -1) for one-character old and new.
Replace(s, old, new) == [i \in 1..Len(s) |-> IF s[i] = old THEN new ELSE s[i]]

\* strings.LastIndex(s, c) for a one-character c: 0-based, -1 when absent.
LastIndex(s, c) ==
    LET at == {i \in 1..Len(s) : s[i] = c}
    IN  IF at = {} THEN -1 ELSE (CHOOSE i \in at : \A j \in at : i >= j) - 1

-----------------------------------------------------------------------------
(* Plural categories and operands (package plural, as package language uses it) *)

Invalid == "Invalid"
Zero == "Zero"
One == "One"
Two == "Two"
Few == "Few"
Many == "Many"
Other == "Other"

\* newSet(pluralCategories...): the set of its arguments.
newSet(pluralCategories) == {pluralCategories[i] : i \in 1..Len(pluralCategories)}


(* The plural rules of the built-in languages: the PluralFunc closures of the
   languages table.  ops is a *plural.Operands: [I, V, W, F, T]. *)

\* Arabic with the few and many ranges tested on I where the code tests I % 100.
PluralFunc_ar_noModulo(ops) ==
    IF ops.W = 0
    THEN CASE ops.I = 0 -> Zero
           [] ops.I = 1 -> One
           [] ops.I = 2 -> Two
           [] OTHER ->
                IF ops.I >= 3 /\ ops.I <= 10 THEN Few
                ELSE IF ops.I >= 11 THEN Many
                ELSE Other
    ELSE Other

\* Arabic
PluralFunc_ar(ops) ==
    IF ops.W = 0
    THEN CASE ops.I = 0 -> Zero
           [] ops.I = 1 -> One
           [] ops.I = 2 -> Two
           [] OTHER ->
                LET mod100 == ops.I % 100
                IN  IF mod100 >= 3 /\ mod100 <= 10 THEN Few
                    ELSE IF mod100 >= 11 THEN Many
                    ELSE Other
    ELSE Other

\* Catalan
PluralFunc_ca(ops) == IF ops.I = 1 /\ ops.V = 0 THEN One ELSE Other

\* Chinese
PluralFunc_zh(ops) == Other

\* Czech
PluralFunc_cs(ops) ==
    IF ops.I = 1 /\ ops.V = 0 THEN One
    ELSE IF ops.I >= 2 /\ ops.I <= 4 /\ ops.V = 0 THEN Few
    ELSE IF ops.V > 0 THEN Many
    ELSE Other

\* Danish with the body of the Czech rule pasted in.
PluralFunc_da_czechBody(ops) ==
    IF ops.I = 1 /\ ops.V = 0 THEN One
    ELSE IF ops.I >= 2 /\ ops.I <= 4 /\ ops.V = 0 THEN Few
    ELSE IF ops.V > 0 THEN Many
    ELSE Other

\* Danish
PluralFunc_da(ops) ==
    IF ops.I = 1 \/ (ops.I = 0 /\ ops.T # 0) THEN One ELSE Other

\* Dutch
PluralFunc_nl(ops) == IF ops.I = 1 /\ ops.V = 0 THEN One ELSE Other

\* English
PluralFunc_en(ops) == IF ops.I = 1 /\ ops.V = 0 THEN One ELSE Other

\* French
PluralFunc_fr(ops) == IF ops.I = 0 \/ ops.I = 1 THEN One ELSE Other

\* German
PluralFunc_de(ops) == IF ops.I = 1 /\ ops.V = 0 THEN One ELSE Other

\* Italian
PluralFunc_it(ops) == IF ops.I = 1 /\ ops.V = 0 THEN One ELSE Other

\* Japanese
PluralFunc_ja(ops) == Other

\* Lithuanian
PluralFunc_lt(ops) ==
    IF ops.F # 0 THEN Many
    ELSE LET mod100 == ops.I % 100
         IN  IF mod100 < 11 \/ mod100 > 19
             THEN CASE ops.I % 10 = 0 -> Other
                    [] ops.I % 10 = 1 -> One
                    [] OTHER -> Few
             ELSE Other

\* Portuguese (European)
PluralFunc_pt(ops) == IF ops.I = 1 /\ ops.V = 0 THEN One ELSE Other

\* Portuguese (Brazilian)
PluralFunc_ptBR(ops) ==
    IF (ops.I = 1 /\ ops.V = 0) \/ (ops.I = 0 /\ ops.T = 1) THEN One ELSE Other

\* Spanish
PluralFunc_es(ops) == IF ops.I = 1 /\ ops.W = 0 THEN One ELSE Other

\* l.PluralFunc(ops): a Language's PluralFunc field names one of the closures.
CallPluralFunc(l, ops) ==
    CASE l.PluralFunc = "ar" -> PluralFunc_ar(ops)
      [] l.PluralFunc = "ca" -> PluralFunc_ca(ops)
      [] l.PluralFunc = "zh" -> PluralFunc_zh(ops)
      [] l.PluralFunc = "cs" -> PluralFunc_cs(ops)
      [] l.PluralFunc = "da" -> PluralFunc_da(ops)
      [] l.PluralFunc = "nl" -> PluralFunc_nl(ops)
      [] l.PluralFunc = "en" -> PluralFunc_en(ops)
      [] l.PluralFunc = "fr" -> PluralFunc_fr(ops)
      [] l.PluralFunc = "de" -> PluralFunc_de(ops)
      [] l.PluralFunc = "it" -> PluralFunc_it(ops)
      [] l.PluralFunc = "ja" -> PluralFunc_ja(ops)
      [] l.PluralFunc = "lt" -> PluralFunc_lt(ops)
      [] l.PluralFunc = "pt" -> PluralFunc_pt(ops)
      [] l.PluralFunc = "pt-BR" -> PluralFunc_ptBR(ops)
      [] l.PluralFunc = "es" -> PluralFunc_es(ops)

-----------------------------------------------------------------------------
(* The registry *)

\* A *Language: the struct's four fields.  PluralFunc names the closure.
Language(id, name, cats, func) ==
    [ID |-> id, Name |-> name, PluralCategories |-> cats, PluralFunc |-> func]

\* The languages table as the package initialises it.
builtinLanguages ==
    LET ar == <<"a", "r">>
        ca == <<"c", "a">>
        zh == <<"z", "h">>
        cs == <<"c", "s">>
        da == <<"d", "a">>
        nl == <<"n", "l">>
        en == <<"e", "n">>
        fr == <<"f", "r">>
        de == <<"d", "e">>
        it == <<"i", "t">>
        ja == <<"j", "a">>
        lt == <<"l", "t">>
        pt == <<"p", "t">>
        ptBR == <<"p", "t", "-", "B", "R">>
        es == <<"e", "s">>
    IN  (ar :> Language(ar, "", newSet(<<Zero, One, Two, Few, Many, Other>>), "ar"))
     @@ (ca :> Language(ca, "", newSet(<<One, Other>>), "ca"))
     @@ (zh :> Language(zh, "", newSet(<<Other>>), "zh"))
     @@ (cs :> Language(cs, "", newSet(<<One, Few, Many, Other>>), "cs"))
     @@ (da :> Language(da, "", newSet(<<One, Other>>), "da"))
     @@ (nl :> Language(nl, "", newSet(<<One, Other>>), "nl"))
     @@ (en :> Language(en, "", newSet(<<One, Other>>), "en"))
     @@ (fr :> Language(fr, "", newSet(<<One, Other>>), "fr"))
     @@ (de :> Language(de, "", newSet(<<One, Other>>), "de"))
     @@ (it :> Language(it, "", newSet(<<One, Other>>), "it"))
     @@ (ja :> Language(ja, "", newSet(<<Other>>), "ja"))
     @@ (lt :> Language(lt, "", newSet(<<One, Few, Many, Other>>), "lt"))
     @@ (pt :> Language(pt, "", newSet(<<One, Other>>), "pt"))
     @@ (ptBR :> Language(ptBR, "", newSet(<<One, Other>>), "pt-BR"))
     @@ (es :> Language(es, "", newSet(<<One, Other>>), "es"))

\* m[k] of a Go map of pointers: nil for a key the map does not hold.
MapGet(m, k) == IF k \in DOMAIN m THEN m[k] ELSE Nil

\* m[k] = v of a Go map.
MapPut(m, k, v) == [x \in DOMAIN m \cup {k} |-> IF x = k THEN v ELSE m[x]]

\* strings.Index(s, c) for a one-character c: 0-based, -1 when absent.
Index(s, c) ==
    LET at == {i \in 1..Len(s) : s[i] = c}
    IN  IF at = {} THEN -1 ELSE (CHOOSE i \in at : \A j \in at : i <= j) - 1

RECURSIVE lookup_firstDash(_, _)
\* lookup cutting at the first dash where the code cuts at the last.
lookup_firstDash(langs, languageID) ==
    LET id    == Replace(TrimSpace(languageID), "_", "-")
        found == MapGet(langs, id)
        end   == Index(id, "-")
    IN  IF found # Nil THEN found
        ELSE IF end >= 0 THEN lookup_firstDash(langs, Slice(id, 0, end))
        ELSE Nil

RECURSIVE lookup_cutBeforeMatch(_, _)
\* lookup cutting at the last dash before it consults the map.
lookup_cutBeforeMatch(langs, languageID) ==
    LET id  == Replace(TrimSpace(languageID), "_", "-")
        end == LastIndex(id, "-")
    IN  IF end >= 0 THEN lookup_cutBeforeMatch(langs, Slice(id, 0, end))
        ELSE MapGet(langs, id)

RECURSIVE lookup(_, _)
\* lookup(languageID), reading the registry langs.
lookup(langs, languageID) ==
    LET trimmed == TrimSpace(languageID)
        id      == Replace(trimmed, "_", "-")
        found   == MapGet(langs, id)
        end     == LastIndex(id, "-")
    IN  IF found # Nil THEN found
        ELSE IF end >= 0 THEN lookup(langs, Slice(id, 0, end))
        ELSE Nil

RECURSIVE lookupCalls(_, _)
\* How many times lookup is entered for lookup(languageID), the first call included.
lookupCalls(langs, languageID) ==
    LET id    == Replace(TrimSpace(languageID), "_", "-")
        found == MapGet(langs, id)
        end   == LastIndex(id, "-")
    IN  IF found # Nil THEN 1
        ELSE IF end >= 0 THEN 1 + lookupCalls(langs, Slice(id, 0, end))
        ELSE 1

\* The runes Parse switches on.
Terminators == {",", ";", "."}
PathSeparators == {"/", "\\"}

RECURSIVE ParseLoop(_, _, _, _, _)
\* Parse's loop from offset end on, then its tail.  tried lists, in order, the
\* slices [start, end) the loop has passed to lookup.  The result holds what Parse
\* returns and every slice it passed to lookup (whole is set when the final
\* lookup(lang) ran).
ParseLoop(langs, lang, start, end, tried) ==
    IF end >= Len(lang)
    THEN IF start > 0
         THEN [found |-> Nil, tried |-> tried, whole |-> FALSE]
         ELSE [found |-> lookup(langs, lang), tried |-> tried, whole |-> TRUE]
    ELSE LET chr == lang[end + 1]
         IN  IF chr \in Terminators
             THEN LET found == lookup(langs, Slice(lang, start, end))
                      now   == Append(tried, <<start, end>>)
                  IN  IF found # Nil
                      THEN [found |-> found, tried |-> now, whole |-> FALSE]
                      ELSE ParseLoop(langs, lang, end + 1, end + 1, now)
             ELSE IF chr \in PathSeparators
             THEN ParseLoop(langs, lang, end + 1, end + 1, tried)
             ELSE ParseLoop(langs, lang, start, end + 1, tried)

\* Parse(lang), reading the registry langs.
Parse(langs, lang) == ParseLoop(langs, lang, 0, 0, <<>>)


-----------------------------------------------------------------------------
(* Operand extraction and PluralCategory *)

\* The nil error.
NilErr == "nil"

Digits == <<"0", "1", "2", "3", "4", "5", "6", "7", "8", "9">>
IsDigit(c) == \E d \in 1..10 : Digits[d] = c
DigitValue(c) == (CHOOSE d \in 1..10 : Digits[d] = c) - 1

RECURSIVE ParseDigits(_)
\* The value of a string of digits, 0 for the empty string.
ParseDigits(s) ==
    IF s = <<>> THEN 0
    ELSE 10 * ParseDigits(SubSeq(s, 1, Len(s) - 1)) + DigitValue(s[Len(s)])

RECURSIVE StripTrailingZeros(_)
StripTrailingZeros(s) ==
    IF s # <<>> /\ s[Len(s)] = "0" THEN StripTrailingZeros(SubSeq(s, 1, Len(s) - 1))
    ELSE s

\* The operands of an integer: its absolute value, no fraction digits.
OperandsOfInt(n) ==
    [I |-> IF n < 0 THEN -n ELSE n, V |-> 0, W |-> 0, F |-> 0, T |-> 0]

\* plural.NewOperands(number): the operands of an integer or of a decimal string
\* (an optional sign, digits, at most one point, digits), an error for anything else.
NewOperands(number) ==
    CASE number.kind = "int" -> [ops |-> OperandsOfInt(number.v), err |-> NilErr]
      [] number.kind = "string" ->
           LET s        == number.s
               signed   == s # <<>> /\ s[1] \in {"-", "+"}
               unsigned == IF signed THEN Tail(s) ELSE s
               points   == {i \in 1..Len(unsigned) : unsigned[i] = "."}
               point    == IF points = {} THEN Len(unsigned) + 1
                           ELSE CHOOSE i \in points : TRUE
               intPart  == SubSeq(unsigned, 1, point - 1)
               fraction == SubSeq(unsigned, point + 1, Len(unsigned))
               wellFormed ==
                   /\ Cardinality(points) <= 1
                   /\ \A i \in 1..Len(unsigned) : i \in points \/ IsDigit(unsigned[i])
                   /\ \E i \in 1..Len(unsigned) : IsDigit(unsigned[i])
           IN  IF wellFormed
               THEN [ops |-> [I |-> ParseDigits(intPart),
                              V |-> Len(fraction),
                              W |-> Len(StripTrailingZeros(fraction)),
                              F |-> ParseDigits(fraction),
                              T |-> ParseDigits(StripTrailingZeros(fraction))],
                     err |-> NilErr]
               ELSE [ops |-> Nil, err |-> "InvalidNumber: not a number"]
      [] OTHER -> [ops |-> Nil, err |-> "InvalidNumber: unsupported type"]

\* PluralCategory that answers Other when the operands cannot be extracted.
PluralCategory_otherOnError(l, number) ==
    LET r == NewOperands(number)
    IN  IF r.err # NilErr
        THEN [category |-> Other, err |-> r.err, invoked |-> FALSE]
        ELSE [category |-> CallPluralFunc(l, r.ops), err |-> NilErr, invoked |-> TRUE]

\* l.PluralCategory(number): the category and the error it returns; invoked tells
\* whether it called l.PluralFunc.
PluralCategory(l, number) ==
    LET r == NewOperands(number)
    IN  IF r.err # NilErr
        THEN [category |-> Invalid, err |-> r.err, invoked |-> FALSE]
        ELSE [category |-> CallPluralFunc(l, r.ops), err |-> NilErr, invoked |-> TRUE]

-----------------------------------------------------------------------------
(* The sequential registry: Register, lookup and Parse called one at a time *)

\* Inputs are built from these pieces, at most MaxIdTokens (MaxLangTokens) of them.
MaxIdTokens == 4
MaxLangTokens == 3
IdTokens == {<<"p", "t">>, <<"B", "R">>, <<"p", "t", "-", "B", "R">>,
             <<"-">>, <<"_">>, <<" ">>}
LangTokens == {<<"p", "t">>, <<"B", "R">>, <<"p", "t", "-", "B", "R">>,
               <<"-">>, <<",">>, <<";">>, <<".">>, <<"/">>, <<"\\">>}
LanguageIDs == {Flatten(ts) : ts \in SeqsUpTo(IdTokens, MaxIdTokens)}
LangStrings == {Flatten(ts) : ts \in SeqsUpTo(LangTokens, MaxLangTokens)}

\* The languages callers register: two that replace the built-in pt-BR, a new BR,
\* and two whose IDs are not in the form lookup normalises to.
RegisterArgs ==
    { Language(<<"p", "t", "-", "B", "R">>, "v1", newSet(<<Other>>), "zh"),
      Language(<<"p", "t", "-", "B", "R">>, "v2",
               newSet(<<Zero, One, Two, Few, Many, Other>>), "ar"),
      Language(<<"B", "R">>, "v1", newSet(<<One, Other>>), "fr"),
      Language(<<"p", "t", "_", "B", "R">>, "v1", newSet(<<One, Other>>), "en"),
      Language(<<" ", "B", "R">>, "v1", newSet(<<Other>>), "ja") }

\* No call is in progress and no result is pending.
NoCall == [op |-> "none"]

InitOther ==
    /\ currentLocale = <<>>
    /\ translations = <<>>
    /\ messages = {}
    /\ pc = <<>>
    /\ arg = <<>>
    /\ ret = <<>>
    /\ dirty = <<>>
    /\ crashed = FALSE

Init ==
    /\ languages = builtinLanguages
    /\ lastReg = <<>>
    /\ last = NoCall
    /\ InitOther

\* Register that keeps an entry already present.
Register_ifAbsent(l) ==
    /\ last = NoCall
    /\ languages' = IF l.ID \in DOMAIN languages THEN languages
                    ELSE MapPut(languages, l.ID, l)
    /\ lastReg' = MapPut(lastReg, l.ID, l)
    /\ last' = [op |-> "Register", l |-> l]
    /\ UNCHANGED <<currentLocale, translations, messages, pc, arg, ret, dirty, crashed>>

\* Register(l)
Register(l) ==
    /\ last = NoCall
    /\ languages' = MapPut(languages, l.ID, l)
    /\ lastReg' = MapPut(lastReg, l.ID, l)
    /\ last' = [op |-> "Register", l |-> l]
    /\ UNCHANGED <<currentLocale, translations, messages, pc, arg, ret, dirty, crashed>>

\* lookup(languageID)
DoLookup(languageID) ==
    /\ last = NoCall
    /\ last' = [op |-> "lookup", languageID |-> languageID,
                found |-> lookup(languages, languageID),
                calls |-> lookupCalls(languages, languageID)]
    /\ UNCHANGED <<languages, lastReg, currentLocale, translations, messages,
                   pc, arg, ret, dirty, crashed>>

\* Parse(lang)
DoParse(lang) ==
    /\ last = NoCall
    /\ last' = [op |-> "Parse", lang |-> lang, r |-> Parse(languages, lang)]
    /\ UNCHANGED <<languages, lastReg, currentLocale, translations, messages,
                   pc, arg, ret, dirty, crashed>>

\* The caller takes the result; calls follow one another.
Return ==
    /\ last # NoCall
    /\ last' = NoCall
    /\ UNCHANGED <<languages, lastReg, currentLocale, translations, messages,
                   pc, arg, ret, dirty, crashed>>

Next ==
    \/ Return
    \/ last = NoCall /\ \E l \in RegisterArgs : Register(l)
    \/ last = NoCall /\ \E languageID \in LanguageIDs : DoLookup(languageID)
    \/ last = NoCall /\ \E lang \in LangStrings : DoParse(lang)

Spec == Init /\ [][Next]_vars


-----------------------------------------------------------------------------
(* Claims about lookup, Parse and Register *)

\* What lookup does to an identifier before it consults the map.
Normalize(s) == Replace(TrimSpace(s), "_", "-")

\* The 0-based offsets d at which a prefix n[:d] of n ends: the whole of n, or just
\* before one of its dashes.
CutPoints(n) == {Len(n)} \cup {i - 1 : i \in {j \in 1..Len(n) : n[j] = "-"}}

\* The entry of the longest key among keyOf(d), d a cut point of n; Nil when none
\* is registered.
LongestRegistered(langs, n, keyOf(_)) ==
    LET hits == {d \in CutPoints(n) : keyOf(d) \in DOMAIN langs}
    IN  IF hits = {} THEN Nil
        ELSE langs[keyOf(CHOOSE d \in hits : \A e \in hits : d >= e)]

\* C3 as stated: lookup returns the definition registered under the longest prefix of
\* the trimmed, dash-normalised identifier that is the whole identifier or ends just
\* before one of its dashes, and the absent result exactly when no such prefix is
\* registered.
C3_LookupLongestPrefix ==
    last.op = "lookup" =>
        LET n == Normalize(last.languageID)
            prefix(d) == Slice(n, 0, d)
        IN  last.found = LongestRegistered(languages, n, prefix)

\* C3 amended: each such prefix is trimmed of surrounding white space again before
\* the registry is consulted; lookup returns the entry of the longest prefix whose
\* trimmed form is registered, the absent result exactly when none is, and it
\* returns after at most one call per dash plus one.
C3_LookupLongestTrimmedPrefix ==
    last.op = "lookup" =>
        LET n == Normalize(last.languageID)
            trimmedPrefix(d) == TrimSpace(Slice(n, 0, d))
        IN  /\ last.found = LongestRegistered(languages, n, trimmedPrefix)
            /\ last.calls <= Cardinality(CutPoints(n))

\* A lookup that fell back twice: pt-pt-BR is not registered, nor is pt-pt; pt is.
C3_Witness ==
    /\ last.op = "lookup"
    /\ last.languageID = <<"p", "t", "-", "p", "t", "-", "B", "R">>
    /\ last.calls = 3
    /\ last.found # Nil
    /\ last.found.ID = <<"p", "t">>


\* The 0-based offsets of the characters of s that are in set.
Offsets(s, set) == {i - 1 : i \in {j \in 1..Len(s) : s[j] \in set}}

\* The slices <<start, end>> between the terminators of lang, the one after the last
\* terminator included, from left to right.
Candidates(lang) ==
    LET cuts   == Offsets(lang, Terminators)
        starts == {0} \cup {c + 1 : c \in cuts}
        endOf(a) == IF \E c \in cuts : c >= a
                    THEN CHOOSE c \in cuts : c >= a /\ \A e \in cuts : e >= a => c <= e
                    ELSE Len(lang)
    IN  {<<a, endOf(a)>> : a \in starts}

\* The candidates of lang whose lookup succeeds.
Supported(langs, lang) ==
    {c \in Candidates(lang) : lookup(langs, Slice(lang, c[1], c[2])) # Nil}

\* C4: Parse returns the definition of the leftmost candidate, among the substrings
\* between the terminators (the one after the last terminator included), whose lookup
\* succeeds, and no match only when no candidate resolves.  Stated for inputs without
\* path separators, where the candidates are exactly those substrings.
C4_ParseFirstSupported ==
    (last.op = "Parse" /\ Offsets(last.lang, PathSeparators) = {}) =>
        LET ok == Supported(languages, last.lang)
        IN  IF ok = {} THEN last.r.found = Nil
            ELSE LET first == CHOOSE c \in ok : \A d \in ok : c[1] <= d[1]
                 IN  last.r.found = lookup(languages, Slice(last.lang, first[1], first[2]))

\* C8: for an input holding a path separator, no (non-empty) substring that lies
\* before the last path separator is passed to lookup, and so none is returned as the
\* match; Parse does not look the whole input up either.
C8_SegmentsBeforeLastSeparatorDiscarded ==
    (last.op = "Parse" /\ Offsets(last.lang, PathSeparators) # {}) =>
        LET seps    == Offsets(last.lang, PathSeparators)
            lastSep == CHOOSE p \in seps : \A q \in seps : p >= q
        IN  /\ ~last.r.whole
            /\ \A k \in 1..Len(last.r.tried) :
                  last.r.tried[k][1] < last.r.tried[k][2] => last.r.tried[k][1] > lastSep

\* C5 as stated: a lookup of an identifier equal to a registered ID returns the
\* definition of the latest Register call with that ID.
C5_LookupReturnsLatestRegistered ==
    (last.op = "lookup" /\ last.languageID \in DOMAIN lastReg) =>
        last.found = lastReg[last.languageID]

\* C5 amended: a lookup of an identifier that equals a registered ID and is in the
\* form lookup normalises to (no underscore, no surrounding white space) returns the
\* definition of the latest Register call with that ID; the registry holds, under
\* every registered ID, the definition of the latest Register call with it, and under
\* every other ID what it held at start.
C5_LastWriteWins ==
    /\ DOMAIN languages = DOMAIN builtinLanguages \cup DOMAIN lastReg
    /\ \A id \in DOMAIN languages :
          languages[id] = IF id \in DOMAIN lastReg THEN lastReg[id]
                          ELSE builtinLanguages[id]
    /\ (last.op = "lookup" /\ last.languageID \in DOMAIN lastReg
          /\ Normalize(last.languageID) = last.languageID) =>
          last.found = lastReg[last.languageID]

\* pt-BR was built in and has been registered again; lookup returns the second
\* definition, with the plural rule and the categories registered with it.
C5_Witness ==
    /\ last.op = "lookup"
    /\ last.languageID = <<"p", "t", "-", "B", "R">>
    /\ last.languageID \in DOMAIN lastReg
    /\ last.found.Name = "v2"
    /\ last.found.PluralFunc = "ar"
    /\ last.found # builtinLanguages[last.languageID]

\* C10 as stated: right after Register(l), lookup(l.ID) returns l, whatever l.ID is.
C10_RegisterLookupRoundTrip ==
    last.op = "Register" => lookup(languages, last.l.ID) = last.l

\* C10 amended: right after Register(l), for an l.ID in the form lookup normalises to
\* (no underscore, no surrounding white space), lookup(l.ID) returns l, and so does
\* Parse(l.ID) when l.ID holds no terminator and no path separator.
C10_RegisterLookupRoundTripNormalized ==
    (last.op = "Register" /\ Normalize(last.l.ID) = last.l.ID) =>
        /\ lookup(languages, last.l.ID) = last.l
        /\ Offsets(last.l.ID, Terminators \cup PathSeparators) = {} =>
              Parse(languages, last.l.ID).found = last.l

\* Register has just replaced the built-in pt-BR.
C10_Witness ==
    /\ last.op = "Register"
    /\ last.l.ID = <<"p", "t", "-", "B", "R">>
    /\ last.l.Name = "v1"
    /\ Normalize(last.l.ID) = last.l.ID
    /\ languages[last.l.ID] = last.l


-----------------------------------------------------------------------------
(* The plural rules called one at a time on the built-in languages *)

MaxI == 111
MaxV == 2
MaxF == 1
MaxNumLen == 4
NumChars == {"0", "1", "5", ".", "-", "x"}

\* The operand sets with W <= V.
OperandSets ==
    {ops \in [I : 0..MaxI, V : 0..MaxV, W : 0..MaxV, F : 0..MaxF, T : 0..MaxF] :
        ops.W <= ops.V}

\* The numbers callers pass: integers, strings, and a value of another type.
Numbers ==
    {[kind |-> "int", v |-> n] : n \in (0 - MaxI)..MaxI}
    \cup {[kind |-> "string", s |-> s] : s \in SeqsUpTo(NumChars, MaxNumLen)}
    \cup {[kind |-> "bool"]}

BuiltinLanguages == {builtinLanguages[id] : id \in DOMAIN builtinLanguages}

InitPlural ==
    /\ languages = builtinLanguages
    /\ lastReg = <<>>
    /\ last = NoCall
    /\ InitOther

\* l.PluralFunc(ops)
DoPluralFunc(l, ops) ==
    /\ last = NoCall
    /\ last' = [op |-> "PluralFunc", l |-> l, ops |-> ops,
                category |-> CallPluralFunc(l, ops)]
    /\ UNCHANGED <<languages, lastReg, currentLocale, translations, messages,
                   pc, arg, ret, dirty, crashed>>

\* l.PluralCategory(number)
DoPluralCategory(l, number) ==
    /\ last = NoCall
    /\ last' = [op |-> "PluralCategory", l |-> l, number |-> number,
                r |-> PluralCategory(l, number)]
    /\ UNCHANGED <<languages, lastReg, currentLocale, translations, messages,
                   pc, arg, ret, dirty, crashed>>

NextPlural ==
    \/ Return
    \/ last = NoCall /\ \E l \in BuiltinLanguages, ops \in OperandSets : DoPluralFunc(l, ops)
    \/ last = NoCall /\ \E l \in BuiltinLanguages, number \in Numbers :
          DoPluralCategory(l, number)

SpecPlural == InitPlural /\ [][NextPlural]_vars

\* C1: a built-in language's rule, on operands with W <= V, returns a category the
\* language declares or Other, and never Invalid; so does PluralCategory when the
\* operands could be extracted.
C1_CategoryDeclared ==
    /\ (last.op = "PluralFunc" /\ last.ops.W <= last.ops.V) =>
          /\ last.category \in last.l.PluralCategories \cup {Other}
          /\ last.category # Invalid
    /\ (last.op = "PluralCategory" /\ last.r.err = NilErr) =>
          /\ last.r.category \in last.l.PluralCategories \cup {Other}
          /\ last.r.category # Invalid

\* The Czech rule has answered Many, which Czech declares and most languages do not.
C1_Witness ==
    /\ last.op = "PluralFunc"
    /\ last.l.ID = <<"c", "s">>
    /\ last.ops.W <= last.ops.V
    /\ last.category = Many
    /\ Many \in last.l.PluralCategories

\* The operands of an integer i: V = W = F = T = 0.
IsInteger(ops) == ops.V = 0 /\ ops.W = 0 /\ ops.F = 0 /\ ops.T = 0

\* C2 as stated: for Arabic and V = 0, i = 102 is Few, i = 111 is Many, i = 1 is One
\* and i = 0 is Zero.
C2_ArabicBoundaries ==
    (last.op = "PluralFunc" /\ last.l.ID = <<"a", "r">> /\ IsInteger(last.ops)) =>
        /\ last.ops.I = 102 => last.category = Few
        /\ last.ops.I = 111 => last.category = Many
        /\ last.ops.I = 1 => last.category = One
        /\ last.ops.I = 0 => last.category = Zero

\* C2 amended: for Arabic and V = 0, i = 102 is Other (102 mod 100 = 2 lies below the
\* few range 3..10), i = 103 is Few, i = 111 is Many, i = 1 is One and i = 0 is Zero.
C2_ArabicBoundariesMod100 ==
    (last.op = "PluralFunc" /\ last.l.ID = <<"a", "r">> /\ IsInteger(last.ops)) =>
        /\ last.ops.I = 102 => last.category = Other
        /\ last.ops.I = 103 => last.category = Few
        /\ last.ops.I = 111 => last.category = Many
        /\ last.ops.I = 1 => last.category = One
        /\ last.ops.I = 0 => last.category = Zero

\* The Arabic rule has been applied to the integer 102.
C2_Witness ==
    /\ last.op = "PluralFunc"
    /\ last.l.ID = <<"a", "r">>
    /\ IsInteger(last.ops)
    /\ last.ops.I = 102
    /\ last.category = Other

\* C7: when NewOperands fails, PluralCategory returns that error with Invalid, without
\* calling the rule; when it succeeds, PluralCategory returns the rule's category for
\* the extracted operands and a nil error.
C7_ExtractionErrorSurfaced ==
    last.op = "PluralCategory" =>
        LET ex == NewOperands(last.number)
        IN  IF ex.err # NilErr
            THEN /\ last.r.err = ex.err
                 /\ last.r.err # NilErr
                 /\ last.r.category = Invalid
                 /\ ~last.r.invoked
            ELSE /\ last.r.err = NilErr
                 /\ last.r.invoked
                 /\ last.r.category = CallPluralFunc(last.l, ex.ops)

\* PluralCategory has been given a string with two points.
C7_Witness ==
    /\ last.op = "PluralCategory"
    /\ last.number = [kind |-> "string", s |-> <<"1", ".", "5", ".">>]
    /\ last.r.err # NilErr
    /\ last.r.category = Invalid


-----------------------------------------------------------------------------
(* Package i18n: the table of translated messages *)

defaultLocale == ""

\* msg.Id(context, content): taken to give distinct ids to distinct pairs.
Id(context, content) == <<context, content>>

Locales == {defaultLocale, "fr", "de"}
Contexts == {"greeting"}
Contents == {"hi", "bye"}
Translated == {"salut", "hallo"}

\* translations[locale][id] with its found flag: a nil inner map holds nothing.
Found(table, locale, id) == locale \in DOMAIN table /\ id \in DOMAIN table[locale]

\* The table after translations[locale][id] = translation, the inner map made first
\* when it is nil.
AddTo(table, locale, id, translation) ==
    LET inner == IF locale \in DOMAIN table THEN table[locale] ELSE <<>>
    IN  MapPut(table, locale, MapPut(inner, id, translation))

InitI18n ==
    /\ currentLocale = defaultLocale
    /\ translations = <<>>
    /\ messages = {}
    /\ last = NoCall
    /\ languages = builtinLanguages
    /\ lastReg = <<>>
    /\ pc = <<>>
    /\ arg = <<>>
    /\ ret = <<>>
    /\ dirty = <<>>
    /\ crashed = FALSE

\* SetLocale(locale)
SetLocale(locale) ==
    /\ last = NoCall
    /\ currentLocale' = locale
    /\ UNCHANGED <<translations, messages, last, languages, lastReg,
                   pc, arg, ret, dirty, crashed>>

\* AddTranslation(locale, context, content, translation)
AddTranslation(locale, context, content, translation) ==
    /\ last = NoCall
    /\ translations' = AddTo(translations, locale, Id(context, content), translation)
    /\ UNCHANGED <<currentLocale, messages, last, languages, lastReg,
                   pc, arg, ret, dirty, crashed>>

\* NewMessage(content, context): the Message it returns joins messages, with the
\* content it was made from.
NewMessage(content, context) ==
    /\ last = NoCall
    /\ translations' = AddTo(translations, defaultLocale, Id(context, content), content)
    /\ messages' = messages \cup {[id |-> Id(context, content), content |-> content]}
    /\ UNCHANGED <<currentLocale, last, languages, lastReg, pc, arg, ret, dirty, crashed>>

\* m.String()
String(m) ==
    /\ last = NoCall
    /\ last' = [op |-> "String", m |-> m,
                t |-> IF Found(translations, currentLocale, m.id)
                      THEN translations[currentLocale][m.id]
                      ELSE translations[defaultLocale][m.id]]
    /\ UNCHANGED <<currentLocale, translations, messages, languages, lastReg,
                   pc, arg, ret, dirty, crashed>>

NextI18n ==
    \/ Return
    \/ \E locale \in Locales : SetLocale(locale)
    \/ \E locale \in Locales \ {"de"}, context \in Contexts, content \in Contents,
          translation \in Translated :
          AddTranslation(locale, context, content, translation)
    \/ \E content \in Contents, context \in Contexts : NewMessage(content, context)
    \/ \E m \in messages : String(m)

SpecI18n == InitI18n /\ [][NextI18n]_vars

\* C9: m.String() returns the translation the table holds for the current locale and
\* m's id when there is one, and otherwise the content m was made from.
C9_StringFallsBackToContent ==
    last.op = "String" =>
        last.t = IF Found(translations, currentLocale, last.m.id)
                 THEN translations[currentLocale][last.m.id]
                 ELSE last.m.content


-----------------------------------------------------------------------------
(* Goroutines calling Register and lookup at once.  The package takes no lock: a
   map write and a map read are the steps between which other goroutines run.  A
   map access that overlaps a map write is a data race; Go's runtime may detect it
   and abort the process, and if it does not the access may see or leave either
   state of the entry. *)

NumGoroutines == 2
Goroutines == 1..NumGoroutines

ConcRegisterArgs == {l \in RegisterArgs : Normalize(l.ID) = l.ID}
ConcLanguageIDs == {<<"p", "t", "-", "B", "R">>, <<"B", "R", "-", "p", "t">>}

Writers == {g \in Goroutines : pc[g] = "writing"}
Readers == {g \in Goroutines : pc[g] = "reading"}

InitConc ==
    /\ languages = builtinLanguages
    /\ lastReg = <<>>
    /\ last = NoCall
    /\ currentLocale = defaultLocale
    /\ translations = <<>>
    /\ messages = {}
    /\ pc = [g \in Goroutines |-> "idle"]
    /\ arg = [g \in Goroutines |-> Nil]
    /\ ret = [g \in Goroutines |-> Nil]
    /\ dirty = [g \in Goroutines |-> FALSE]
    /\ crashed = FALSE

\* Goroutine g calls Register(l).
CallRegister(g, l) ==
    /\ ~crashed /\ pc[g] = "idle"
    /\ pc' = [pc EXCEPT ![g] = "Register"]
    /\ arg' = [arg EXCEPT ![g] = l]
    /\ UNCHANGED <<languages, lastReg, last, currentLocale, translations, messages,
                   ret, dirty, crashed>>

\* languages[l.ID] = l begins: nothing holds other goroutines off the map.
WriteBegin(g) ==
    /\ ~crashed /\ pc[g] = "Register"
    /\ pc' = [pc EXCEPT ![g] = "writing"]
    /\ dirty' = [h \in Goroutines |->
                    IF h = g THEN Writers # {} \/ Readers # {}
                    ELSE dirty[h] \/ pc[h] \in {"writing", "reading"}]
    /\ crashed' \in IF Writers # {} \/ Readers # {} THEN {FALSE, TRUE} ELSE {FALSE}
    /\ UNCHANGED <<languages, lastReg, last, currentLocale, translations, messages,
                   arg, ret>>

\* languages[l.ID] = l ends, and Register returns.  A write that raced may be lost.
WriteEnd(g) ==
    /\ ~crashed /\ pc[g] = "writing"
    /\ languages' \in {MapPut(languages, arg[g].ID, arg[g])}
                      \cup (IF dirty[g] THEN {languages} ELSE {})
    /\ pc' = [pc EXCEPT ![g] = "idle"]
    /\ dirty' = [dirty EXCEPT ![g] = FALSE]
    /\ UNCHANGED <<lastReg, last, currentLocale, translations, messages,
                   arg, ret, crashed>>

\* Goroutine g calls lookup(languageID).
CallLookup(g, languageID) ==
    /\ ~crashed /\ pc[g] = "idle"
    /\ pc' = [pc EXCEPT ![g] = "lookup"]
    /\ arg' = [arg EXCEPT ![g] = Replace(TrimSpace(languageID), "_", "-")]
    /\ UNCHANGED <<languages, lastReg, last, currentLocale, translations, messages,
                   ret, dirty, crashed>>

\* languages[languageID] begins.
ReadBegin(g) ==
    /\ ~crashed /\ pc[g] = "lookup"
    /\ pc' = [pc EXCEPT ![g] = "reading"]
    /\ dirty' = [h \in Goroutines |->
                    IF h = g THEN Writers # {} ELSE dirty[h] \/ pc[h] = "writing"]
    /\ crashed' \in IF Writers # {} THEN {FALSE, TRUE} ELSE {FALSE}
    /\ UNCHANGED <<languages, lastReg, last, currentLocale, translations, messages,
                   arg, ret>>

\* languages[languageID] ends with found; lookup returns it, or recurses on the
\* identifier cut at its last dash, or returns nil.  A read that raced with a write
\* may have missed the entry.
ReadEnd(g) ==
    /\ ~crashed /\ pc[g] = "reading"
    /\ \E found \in {MapGet(languages, arg[g])} \cup (IF dirty[g] THEN {Nil} ELSE {}) :
          LET end == LastIndex(arg[g], "-")
          IN  IF found # Nil
              THEN /\ ret' = [ret EXCEPT ![g] = found]
                   /\ pc' = [pc EXCEPT ![g] = "idle"]
                   /\ arg' = arg
              ELSE IF end >= 0
              THEN /\ arg' = [arg EXCEPT ![g] =
                                Replace(TrimSpace(Slice(arg[g], 0, end)), "_", "-")]
                   /\ pc' = [pc EXCEPT ![g] = "lookup"]
                   /\ ret' = ret
              ELSE /\ ret' = [ret EXCEPT ![g] = Nil]
                   /\ pc' = [pc EXCEPT ![g] = "idle"]
                   /\ arg' = arg
    /\ dirty' = [dirty EXCEPT ![g] = FALSE]
    /\ UNCHANGED <<languages, lastReg, last, currentLocale, translations, messages,
                   crashed>>

NextConc ==
    \/ \E g \in Goroutines, l \in ConcRegisterArgs : CallRegister(g, l)
    \/ \E g \in Goroutines : WriteBegin(g)
    \/ \E g \in Goroutines : WriteEnd(g)
    \/ \E g \in Goroutines, languageID \in ConcLanguageIDs : CallLookup(g, languageID)
    \/ \E g \in Goroutines : ReadBegin(g)
    \/ \E g \in Goroutines : ReadEnd(g)

SpecConc == InitConc /\ [][NextConc]_vars

\* C6: the writes of two Register calls never overlap, and no lookup reads the map
\* while a Register write is in progress.
C6_RegistryRaceFree ==
    /\ Cardinality(Writers) <= 1
    /\ Writers # {} => Readers = {}

=============================================================================
